---- MODULE Spec2Model ----
(***************************************************************************)
(* A model of the closed-loop rollout controller of motion-policy-networks *)
(*   src/interactive_demo/mpinets_ros/nodes/planning_node.py  Planner.plan *)
(*   src/mpinets/run_inference_nocyl.py            rollout_until_success,  *)
(*       make_point_cloud_from_problem, make_point_cloud_from_primitives   *)
(* and of the obstacle lists the evaluator and the node hand to the point  *)
(* samplers.                                                               *)
(*                                                                         *)
(* Numbers.  Tensors of reals are modelled on integer lattices:            *)
(*   - a normalized joint value v is the integer v * NormOne;              *)
(*   - a raw joint value is an integer; joint j has limits JOINT_LIMITS[j] *)
(*     and the values unnormalize produces are the lattice                 *)
(*     lo + k * (hi - lo) / (2 * NormOne);                                 *)
(*   - lengths are in millimetres (0.01 is DIST_THRESHOLD = 10), angles in *)
(*     degrees.                                                            *)
(* Every modelled value is taken to be exactly representable, so the casts *)
(* .float() / .type_as() of the code change nothing and are not modelled.  *)
(***************************************************************************)
EXTENDS Integers, Sequences, FiniteSets, TLC

VARIABLES
    fn,           \* which rollout is running: "none", "plan", "rollout"
    pc,           \* "idle", "loop", "done" (returned), "raised"
    q0,           \* the initial configuration handed to the rollout
    target,       \* the target pose
    point_cloud,  \* the scene point cloud, a sequence of rows <<x, y, z, label>>
    cloud0,       \* history: the scene point cloud as first constructed
    trajectory,   \* the list of raw configurations
    q_norm,       \* the normalized configuration
    success,      \* plan's success flag
    i,            \* loop iterations completed
    mdlCalls,     \* history: number of policy invocations
    lastDelta,    \* history: the delta the policy returned last
    byBreak,      \* history: the loop was left through its break
    obstacle_pc,  \* the obstacle points handed in (plan) or held by the problem
    obstacles,    \* the obstacle list of the problem at hand
    before,       \* history: that list as it was loaded
    opc,          \* problem.obstacle_point_cloud: "None" or "depth"
    sampled,      \* history: obstacle lists handed to a point sampler
    stage,        \* position of the evaluator / node: see EvalNext
    policy,       \* the loaded policy network (mdl)
    ev,           \* the locals of a second, concurrent rollout_until_success
    cv,           \* the locals of convert_primitive_problems_to_depth
    smp,          \* the last obstacle sub-sampling call: source, indices, result
    node,         \* the PlanningNode under construction: stage, attributes
    cb,           \* per publisher connection: the plan_callback it is running
    delivered     \* history: number of PlanningProblem messages delivered

rolloutVars == <<fn, pc, q0, target, point_cloud, cloud0, trajectory, q_norm,
                 success, i, mdlCalls, lastDelta, byBreak, obstacle_pc>>
obsVars == <<obstacles, before, opc, sampled, stage>>
nodeVars == <<node, cb, delivered>>
extVars == <<policy, ev, cv, smp, nodeVars>>

\* the publishers connected to /mpinets/planning_problem: the interaction
\* tool and one more.  rospy runs one receiving thread per connection and a
\* thread invokes the subscriber callback itself.
Connections == {"tool", "other"}

\* the fields of a plan_callback invocation before any message arrived
IdleCallback ==
    [pc |-> "idle", msg |-> <<>>, early |-> FALSE,
     goals |-> 0, warned |-> FALSE, invoked |-> FALSE, planned |-> FALSE,
     success |-> FALSE, plan |-> <<>>, points |-> <<>>, pubs |-> 0]
vars == <<rolloutVars, obsVars, extVars>>

----------------------------------------------------------------------------
(* Sizes.  The program's values are 2048 / 4096 / 128 points and 30 / 150  *)
(* steps; the model keeps the names and scales the values down.            *)
NUM_ROBOT_POINTS == 2
NUM_OBSTACLE_POINTS == 2
NUM_TARGET_POINTS == 1
\* planning_node.py's budget (30 in the program)
MAX_ROLLOUT_LENGTH == 2
\* run_inference_nocyl.py's budget (150 in the program)
MAX_ROLLOUT_LENGTH_EVAL == 3
\* number of actuated joints (7 on the Franka)
NumJoints == 2
\* the integer that stands for the normalized value 1.0
NormOne == 2

\* success thresholds of the termination test: 0.01 (here in mm) and 15 degrees
DIST_THRESHOLD == 10
ANGLE_THRESHOLD == 15

Joints == 1..NumJoints

Abs(x) == IF x < 0 THEN -x ELSE x

Min(a, b) == IF a < b THEN a ELSE b

Max(a, b) == IF a > b THEN a ELSE b

----------------------------------------------------------------------------
(* Joint limits and the affine normalization.                              *)

\* FrankaRealRobot.JOINT_LIMITS: row j is <<lower, upper>>.  Joint j has
\* half-width j * NormOne around the centre j - 1, so the joints differ in
\* both slope and offset of the normalization.
JOINT_LIMITS == [j \in Joints |-> <<(j - 1) - j * NormOne, (j - 1) + j * NormOne>>]

\* np.all(JOINT_LIMITS[:, 0] <= q0) and np.all(q0 <= JOINT_LIMITS[:, 1])
WithinLimits_strict(q) ==
    /\ \A j \in Joints : JOINT_LIMITS[j][1] < q[j]
    /\ \A j \in Joints : q[j] < JOINT_LIMITS[j][2]

WithinLimits(q) ==
    /\ \A j \in Joints : JOINT_LIMITS[j][1] <= q[j]
    /\ \A j \in Joints : q[j] <= JOINT_LIMITS[j][2]

\* mpinets.utils.normalize_franka_joints: lower |-> -1, upper |-> +1, affine
normalize_franka_joints(q) ==
    [j \in Joints |->
        ((2 * NormOne * (q[j] - JOINT_LIMITS[j][1]))
            \div (JOINT_LIMITS[j][2] - JOINT_LIMITS[j][1])) - NormOne]

\* mpinets.utils.unnormalize_franka_joints: the inverse affine map
unnormalize_franka_joints(n) ==
    [j \in Joints |->
        JOINT_LIMITS[j][1]
        + ((n[j] + NormOne) * (JOINT_LIMITS[j][2] - JOINT_LIMITS[j][1]))
            \div (2 * NormOne)]

\* torch.clamp(x, min=-1, max=1), element-wise
Clamp_noupper(x) == [j \in Joints |-> Max(x[j], -NormOne)]

Clamp(x) == [j \in Joints |-> Min(Max(x[j], -NormOne), NormOne)]

\* q_norm + mdl(point_cloud, q_norm), clamped
ApplyDelta(qn, delta) == Clamp([j \in Joints |-> qn[j] + delta[j]])

----------------------------------------------------------------------------
(* Forward kinematics and the termination test.                            *)

\* FrankaRealRobot.fk(qt, eff_frame="right_gripper"): the first joint moves
\* the gripper along a line (5 mm per unit), the last joint turns it
\* (5 degrees per unit).
fk(q) == [xyz |-> 5 * q[1], deg |-> 5 * q[NumJoints]]

\* np.linalg.norm(eff_pose._xyz - target._xyz)
Distance(eff, tgt) == Abs(eff.xyz - tgt.xyz)

\* (eff.so3._quat * target.so3._quat.conjugate).radians, in degrees: the angle
\* of the relative rotation, in (-180, 180]
RelativeDegrees(eff, tgt) ==
    LET d == (eff.deg - tgt.deg) % 360
    IN  IF d > 180 THEN d - 360 ELSE d

TerminationTest_inclusive(qt, tgt) ==
    /\ Distance(fk(qt), tgt) <= DIST_THRESHOLD
    /\ Abs(RelativeDegrees(fk(qt), tgt)) <= ANGLE_THRESHOLD

TerminationTest(qt, tgt) ==
    /\ Distance(fk(qt), tgt) < DIST_THRESHOLD
    /\ Abs(RelativeDegrees(fk(qt), tgt)) < ANGLE_THRESHOLD

----------------------------------------------------------------------------
(* Point clouds: sequences of rows; a scene row is <<x, y, z, label>>.      *)

\* fk_sampler.sample(q, n): n surface points of the robot at configuration q
RobotSample(q, n) == [k \in 1..n |-> <<q[1], q[NumJoints], k>>]

\* fk_sampler.sample_end_effector(pose, num_points=n)
TargetSample(tgt, n) == [k \in 1..n |-> <<tgt.xyz, tgt.deg, -k>>]

\* torch.zeros(n, 4), torch.ones(n, 4), 2 * torch.ones(n, 4)
ConstRows(n, v) == [k \in 1..n |-> <<v, v, v, v>>]

\* cloud[start : start + len(pts), :3] = pts  (0-based start)
AssignXYZ(cloud, start, pts) ==
    [r \in 1..Len(cloud) |->
        IF start < r /\ r <= start + Len(pts)
        THEN <<pts[r - start][1], pts[r - start][2], pts[r - start][3],
               cloud[r][4]>>
        ELSE cloud[r]]

\* torch.cat((zeros, ones, 2 * ones), dim=0) and the three slice assignments
StackCloud_swapped(robot, obst, tgt) ==
    LET base == ConstRows(NUM_ROBOT_POINTS, 0)
                \o ConstRows(NUM_TARGET_POINTS, 2)
                \o ConstRows(NUM_OBSTACLE_POINTS, 1)
    IN  AssignXYZ(
            AssignXYZ(AssignXYZ(base, 0, robot), NUM_ROBOT_POINTS, tgt),
            NUM_ROBOT_POINTS + NUM_TARGET_POINTS, obst)

StackCloud(robot, obst, tgt) ==
    LET base == ConstRows(NUM_ROBOT_POINTS, 0)
                \o ConstRows(NUM_OBSTACLE_POINTS, 1)
                \o ConstRows(NUM_TARGET_POINTS, 2)
    IN  AssignXYZ(
            AssignXYZ(AssignXYZ(base, 0, robot), NUM_ROBOT_POINTS, obst),
            NUM_ROBOT_POINTS + NUM_OBSTACLE_POINTS, tgt)

\* point_cloud[:, :NUM_ROBOT_POINTS, :3] = robot_points
OverwriteRobot_wide(cloud, samples) ==
    AssignXYZ(cloud, 0, samples \o <<samples[1]>>)

OverwriteRobot_none(cloud, samples) == cloud

OverwriteRobot(cloud, samples) == AssignXYZ(cloud, 0, samples)

----------------------------------------------------------------------------
(* The inputs the model draws from.                                        *)

\* the configuration whose every joint has normalized value n
Uniform(n) == unnormalize_franka_joints([j \in Joints |-> n])

\* centre, both bounds exactly, one step below the first joint's lower bound,
\* one step above the last joint's upper bound
InitialConfigs ==
    { Uniform(0), Uniform(-NormOne), Uniform(NormOne),
      unnormalize_franka_joints(
          [j \in Joints |-> IF j = 1 THEN -NormOne - 1 ELSE 0]),
      unnormalize_franka_joints(
          [j \in Joints |-> IF j = NumJoints THEN NormOne + 1 ELSE 0]) }

\* a target the lattice reaches and passes at exactly 10 mm / 15 degrees,
\* and one out of reach
Targets == { [xyz |-> 0, deg |-> 0], [xyz |-> 40, deg |-> 90] }

\* what the policy may return for one query
Deltas ==
    { [j \in Joints |-> d] : d \in {-1, 0, 1, 3 * NormOne} }
    \cup { [j \in Joints |-> IF j = 1 THEN 1 ELSE 0],
           [j \in Joints |-> IF j = NumJoints THEN 1 ELSE 0] }

\* an array of the given shape with pairwise different rows
ObstacleArray(rows, cols) ==
    [r \in 1..rows |-> [c \in 1..cols |-> 10 * r + c]]

\* the obstacle arrays a caller may hand to plan
PlanObstacleInputs ==
    { ObstacleArray(NUM_OBSTACLE_POINTS, 3),
      ObstacleArray(NUM_OBSTACLE_POINTS + 1, 3),
      ObstacleArray(NUM_OBSTACLE_POINTS, 4) }

\* obstacle_pc.shape == (NUM_OBSTACLE_POINTS, 3)
ShapeOk(a) ==
    /\ Len(a) = NUM_OBSTACLE_POINTS
    /\ \A r \in 1..Len(a) : Len(a[r]) = 3

\* for _ in range(budget): another iteration follows k completed ones
LoopContinues_long(k, budget) == k <= budget

LoopContinues_short(k, budget) == k < budget - 1

LoopContinues(k, budget) == k < budget

\* "if <test>: success = True"
SuccessAfter_stale(s, hit) == s

SuccessAfter(s, hit) == s \/ hit

----------------------------------------------------------------------------
(* Planner.plan                                                            *)

Init ==
    /\ fn = "none"
    /\ pc = "idle"
    /\ q0 = <<>>
    /\ target = [xyz |-> 0, deg |-> 0]
    /\ point_cloud = <<>>
    /\ cloud0 = <<>>
    /\ trajectory = <<>>
    /\ q_norm = <<>>
    /\ success = FALSE
    /\ i = 0
    /\ mdlCalls = 0
    /\ lastDelta = <<>>
    /\ byBreak = FALSE
    /\ obstacle_pc = <<>>
    /\ obstacles = <<>>
    /\ before = <<>>
    /\ opc = "None"
    /\ sampled = <<>>
    /\ stage = "start"
    /\ policy = [kind |-> "none", d |-> <<>>]
    /\ ev = [pc |-> "idle"]
    /\ cv = [pc |-> "idle"]
    /\ smp = [pc |-> "idle"]
    /\ node = [stage |-> "new", attrs |-> {}, planner |-> "unset",
               full_scene_pc |-> <<>>]
    /\ cb = [c \in Connections |-> IdleCallback]
    /\ delivered = 0

\* plan, from its entry to the head of the loop: the two assertions, the
\* construction of the scene point cloud, the initial trajectory
PlanCall ==
    /\ pc = "idle"
    /\ \E q \in InitialConfigs, tgt \in Targets, a \in PlanObstacleInputs :
        /\ fn' = "plan"
        /\ q0' = q
        /\ target' = tgt
        /\ obstacle_pc' = a
        /\ IF ShapeOk(a) /\ WithinLimits(q)
           THEN /\ point_cloud' =
                       StackCloud(RobotSample(q, NUM_ROBOT_POINTS), a,
                                  TargetSample(tgt, NUM_TARGET_POINTS))
                /\ cloud0' = point_cloud'
                /\ trajectory' = <<q>>
                /\ q_norm' = normalize_franka_joints(q)
                /\ pc' = "loop"
           ELSE /\ pc' = "raised"
                /\ UNCHANGED <<point_cloud, cloud0, trajectory, q_norm>>
    /\ UNCHANGED <<success, i, mdlCalls, lastDelta, byBreak, obsVars, extVars>>

\* one iteration of plan's loop, and the return when the loop ends
PlanStep_resample_first ==
    /\ fn = "plan"
    /\ pc = "loop"
    /\ \E delta \in Deltas :
        LET qn == ApplyDelta(q_norm, delta)
            qt == unnormalize_franka_joints(qn)
            hit == TerminationTest(qt, target)
        IN  /\ mdlCalls' = mdlCalls + 1
            /\ lastDelta' = delta
            /\ q_norm' = qn
            /\ trajectory' = Append(trajectory, qt)
            /\ success' = SuccessAfter(success, hit)
            /\ byBreak' = hit
            /\ point_cloud' =
                   OverwriteRobot(point_cloud,
                                  RobotSample(qt, NUM_ROBOT_POINTS))
            /\ i' = i + 1
            /\ pc' = IF hit \/ ~LoopContinues(i + 1, MAX_ROLLOUT_LENGTH)
                     THEN "done" ELSE "loop"
    /\ UNCHANGED <<fn, q0, target, cloud0, obstacle_pc, obsVars, extVars>>

PlanStep ==
    /\ fn = "plan"
    /\ pc = "loop"
    /\ \E delta \in Deltas :
        LET qn == ApplyDelta(q_norm, delta)
            qt == unnormalize_franka_joints(qn)
            hit == TerminationTest(qt, target)
        IN  /\ mdlCalls' = mdlCalls + 1
            /\ lastDelta' = delta
            /\ q_norm' = qn
            /\ trajectory' = Append(trajectory, qt)
            /\ success' = SuccessAfter(success, hit)
            /\ byBreak' = hit
            /\ point_cloud' =
                   IF hit THEN point_cloud
                   ELSE OverwriteRobot(point_cloud,
                                       RobotSample(qt, NUM_ROBOT_POINTS))
            /\ i' = i + 1
            /\ pc' = IF hit \/ ~LoopContinues(i + 1, MAX_ROLLOUT_LENGTH)
                     THEN "done" ELSE "loop"
    /\ UNCHANGED <<fn, q0, target, cloud0, obstacle_pc, obsVars, extVars>>

----------------------------------------------------------------------------
(* The offline evaluator: cloud construction and rollout_until_success     *)

\* np.random.choice(n, size=size, replace=False): the index vectors it may
\* return; none when n < size (it raises ValueError)
RandomChoice_replace(n, size) == [1..size -> 1..n]

RandomChoice(n, size) ==
    { s \in [1..size -> 1..n] :
        \A a, b \in 1..size : a # b => s[a] # s[b] }

\* mpinets.geometry.construct_mixed_point_cloud(obstacles, num_points):
\* num_points rows of x, y, z and an obstacle index
construct_mixed_point_cloud(num_points) == ObstacleArray(num_points, 4)

\* a simulated depth-camera cloud of the given number of points
DepthCloud(rows) == ObstacleArray(rows, 3)

\* obstacle_points[:, :3] and obstacle_points[indices, :3]
FirstThreeColumns(a) == [r \in 1..Len(a) |-> <<a[r][1], a[r][2], a[r][3]>>]

TakeRows(a, idx) == [k \in 1..Len(idx) |-> a[idx[k]]]

make_point_cloud_from_primitives(q, tgt, obstacle_points) ==
    StackCloud(RobotSample(q, NUM_ROBOT_POINTS),
               FirstThreeColumns(obstacle_points),
               TargetSample(tgt, NUM_TARGET_POINTS))

make_point_cloud_from_problem(q, tgt, obstacle_points, idx) ==
    StackCloud(RobotSample(q, NUM_ROBOT_POINTS),
               FirstThreeColumns(TakeRows(obstacle_points, idx)),
               TargetSample(tgt, NUM_TARGET_POINTS))

\* the obstacle points a problem may carry: sampled from its primitives when
\* problem.obstacle_point_cloud is None, else a depth cloud
EvalObstacleSources ==
    { [kind |-> "primitives",
       points |-> construct_mixed_point_cloud(NUM_OBSTACLE_POINTS)],
      [kind |-> "depth", points |-> DepthCloud(NUM_OBSTACLE_POINTS + 1)],
      [kind |-> "depth", points |-> DepthCloud(NUM_OBSTACLE_POINTS - 1)] }

\* calculate_metrics / visualize_results for one problem, from the
\* construction of its scene point cloud to the head of the loop of
\* rollout_until_success
EvalCall ==
    /\ pc = "idle"
    /\ \E q \in InitialConfigs, tgt \in Targets, src \in EvalObstacleSources :
        /\ fn' = "rollout"
        /\ q0' = q
        /\ target' = tgt
        /\ obstacle_pc' = src.points
        /\ \/ /\ src.kind = "primitives"
              /\ point_cloud' =
                     make_point_cloud_from_primitives(q, tgt, src.points)
              /\ pc' = "loop"
           \/ /\ src.kind = "depth"
              /\ \E idx \in RandomChoice(Len(src.points), NUM_OBSTACLE_POINTS) :
                     point_cloud' =
                         make_point_cloud_from_problem(q, tgt, src.points, idx)
              /\ pc' = "loop"
           \/ /\ src.kind = "depth"
              /\ RandomChoice(Len(src.points), NUM_OBSTACLE_POINTS) = {}
              /\ point_cloud' = point_cloud
              /\ pc' = "raised"
        /\ IF pc' = "loop"
           THEN /\ cloud0' = point_cloud'
                /\ trajectory' = <<q>>
                /\ q_norm' = normalize_franka_joints(q)
           ELSE UNCHANGED <<cloud0, trajectory, q_norm>>
    /\ UNCHANGED <<success, i, mdlCalls, lastDelta, byBreak, obsVars, extVars>>

\* one iteration of the loop of rollout_until_success, and the return when
\* the loop ends
RolloutStep ==
    /\ fn = "rollout"
    /\ pc = "loop"
    /\ \E delta \in Deltas :
        LET qn == ApplyDelta(q_norm, delta)
            qt == unnormalize_franka_joints(qn)
            hit == TerminationTest(qt, target)
        IN  /\ mdlCalls' = mdlCalls + 1
            /\ lastDelta' = delta
            /\ q_norm' = qn
            /\ trajectory' = Append(trajectory, qt)
            /\ byBreak' = hit
            /\ point_cloud' =
                   IF hit THEN point_cloud
                   ELSE OverwriteRobot(point_cloud,
                                       RobotSample(qt, NUM_ROBOT_POINTS))
            /\ i' = i + 1
            /\ pc' = IF hit \/ ~LoopContinues(i + 1, MAX_ROLLOUT_LENGTH_EVAL)
                     THEN "done" ELSE "loop"
    /\ UNCHANGED <<fn, q0, target, cloud0, success, obstacle_pc, obsVars, extVars>>

Next == PlanCall \/ PlanStep \/ EvalCall \/ RolloutStep

Spec == Init /\ [][Next]_vars

----------------------------------------------------------------------------
(* Properties of the rollouts, checked under Spec.                         *)

\* the step budget of the running rollout
Budget == IF fn = "plan" THEN MAX_ROLLOUT_LENGTH ELSE MAX_ROLLOUT_LENGTH_EVAL

Started == pc \in {"loop", "done"}

\* the configuration appended at step k is trajectory[k + 1]
StepsTaken == 1..(Len(trajectory) - 1)

\* C1: when plan returns, success is TRUE if and only if the termination
\* test held for the configuration appended at some step k with
\* 1 <= k <= MAX_ROLLOUT_LENGTH; in every other run it returns FALSE.
C1_SuccessIffTestHeld ==
    (fn = "plan" /\ pc = "done") =>
        (success <=>
            \E k \in 1..MAX_ROLLOUT_LENGTH :
                /\ k \in StepsTaken
                /\ TerminationTest(trajectory[k + 1], target))

\* plan returned success after a step that failed the test and one that passed
C1_Witness ==
    /\ fn = "plan"
    /\ pc = "done"
    /\ success
    /\ Len(trajectory) = 3
    /\ ~TerminationTest(trajectory[2], target)
    /\ TerminationTest(trajectory[3], target)

\* C2: a run of plan in which no step satisfies the termination test does
\* not raise once the loop is entered: it returns success = FALSE and a
\* trajectory of exactly MAX_ROLLOUT_LENGTH + 1 configurations.
C2_BudgetExhaustion ==
    (/\ fn = "plan"
     /\ Len(trajectory) >= 1
     /\ \A k \in StepsTaken : ~TerminationTest(trajectory[k + 1], target))
    => /\ pc # "raised"
       /\ Len(trajectory) <= MAX_ROLLOUT_LENGTH + 1
       /\ pc = "loop" => Len(trajectory) < MAX_ROLLOUT_LENGTH + 1
       /\ pc = "done" =>
             /\ success = FALSE
             /\ Len(trajectory) = MAX_ROLLOUT_LENGTH + 1

\* the policy answered zero every time, far from the target
C2_Witness ==
    /\ fn = "plan"
    /\ pc = "done"
    /\ target = [xyz |-> 40, deg |-> 90]
    /\ \A k \in 1..Len(trajectory) : trajectory[k] = q0
    /\ lastDelta = [j \in Joints |-> 0]
    /\ success = FALSE
    /\ Len(trajectory) = MAX_ROLLOUT_LENGTH + 1

\* the two preconditions of plan, as the claim states them
C3_Preconditions ==
    /\ \A j \in Joints :
          JOINT_LIMITS[j][1] <= q0[j] /\ q0[j] <= JOINT_LIMITS[j][2]
    /\ Len(obstacle_pc) = NUM_OBSTACLE_POINTS
    /\ \A r \in 1..Len(obstacle_pc) : Len(obstacle_pc[r]) = 3

\* C3: in plan the policy is invoked only if every joint of the initial
\* configuration lies within its limits, both bounds inclusive, and the
\* obstacle input has exactly NUM_OBSTACLE_POINTS rows of 3 columns; when
\* both hold plan does not fail, and when either is violated plan raises
\* with no policy invocation.
C3_FailFast ==
    fn = "plan" =>
        /\ mdlCalls > 0 => C3_Preconditions
        /\ C3_Preconditions => pc # "raised"
        /\ ~C3_Preconditions => (pc = "raised" /\ mdlCalls = 0)

\* plan ran from a configuration with every joint exactly on its upper bound
C3_Witness ==
    /\ fn = "plan"
    /\ \A j \in Joints : q0[j] = JOINT_LIMITS[j][2]
    /\ pc = "done"
    /\ mdlCalls > 0

\* the pose of the configuration appended at step k against the target
C4_Dist(k) == Abs(fk(trajectory[k + 1]).xyz - target.xyz)

C4_Angle(k) == Abs(RelativeDegrees(fk(trajectory[k + 1]), target))

\* C4: a step ends the rollout with success exactly when its pose is at
\* distance < 0.01 (10 mm) and at an angle < 15 degrees, both strict and at
\* once; every other step, those at exactly 10 mm or 15 degrees included,
\* does not end it.
C4_StrictTermination ==
    Started =>
        /\ \A k \in StepsTaken :
              (k = Len(trajectory) - 1 /\ pc = "done" /\ byBreak)
              <=> (C4_Dist(k) < DIST_THRESHOLD /\ C4_Angle(k) < ANGLE_THRESHOLD)
        /\ (fn = "plan" /\ pc = "done") => (success <=> byBreak)

\* a step at exactly 10 mm and under 15 degrees did not end the rollout,
\* a later one under both thresholds did
C4_Witness ==
    /\ pc = "done"
    /\ byBreak
    /\ \E k \in StepsTaken :
          /\ k < Len(trajectory) - 1
          /\ C4_Dist(k) = DIST_THRESHOLD
          /\ C4_Angle(k) < ANGLE_THRESHOLD

\* C5: during a rollout, at every step and in the final state, the rows of
\* the scene point cloud from NUM_ROBOT_POINTS on and the label column of
\* every row are those of the initial construction.
C5_OnlyRobotXYZChanges ==
    Started =>
        /\ Len(point_cloud) = Len(cloud0)
        /\ \A r \in 1..Len(cloud0) :
              /\ Len(point_cloud[r]) = Len(cloud0[r])
              /\ point_cloud[r][4] = cloud0[r][4]
              /\ r > NUM_ROBOT_POINTS => point_cloud[r] = cloud0[r]

\* the budget ran out and the robot segment is no longer the initial one
C5_Witness ==
    /\ pc = "done"
    /\ ~byBreak
    /\ \E r \in 1..NUM_ROBOT_POINTS : point_cloud[r] # cloud0[r]

\* C6: after every delta application, the last one included, every element
\* of the normalized configuration lies in [-1, 1], whatever the delta.
C6_NormalizedClamped ==
    (Started /\ i >= 1) =>
        \A j \in Joints : -NormOne <= q_norm[j] /\ q_norm[j] <= NormOne

\* the last delta overshot +1 on some joint, which now sits at exactly +1
C6_Witness ==
    /\ pc = "done"
    /\ i >= 1
    /\ \E j \in Joints :
          /\ normalize_franka_joints(trajectory[Len(trajectory) - 1])[j]
                + lastDelta[j] > NormOne
          /\ q_norm[j] = NormOne

\* the label a row of the scene point cloud must carry
C7_Label(r) ==
    IF r <= NUM_ROBOT_POINTS THEN 0
    ELSE IF r <= NUM_ROBOT_POINTS + NUM_OBSTACLE_POINTS THEN 1
    ELSE 2

\* C7: every scene point cloud built by plan, make_point_cloud_from_problem
\* or make_point_cloud_from_primitives has NUM_ROBOT_POINTS +
\* NUM_OBSTACLE_POINTS + NUM_TARGET_POINTS rows of 4 columns, the segments
\* in the order robot, obstacle, target, labelled 0, 1 and 2.
C7_CloudLayout ==
    Started =>
        /\ Len(cloud0) =
               NUM_ROBOT_POINTS + NUM_OBSTACLE_POINTS + NUM_TARGET_POINTS
        /\ \A r \in 1..Len(cloud0) :
              /\ Len(cloud0[r]) = 4
              /\ cloud0[r][4] = C7_Label(r)
              /\ r <= NUM_ROBOT_POINTS =>
                    SubSeq(cloud0[r], 1, 3)
                        = RobotSample(q0, NUM_ROBOT_POINTS)[r]
              /\ (NUM_ROBOT_POINTS < r
                     /\ r <= NUM_ROBOT_POINTS + NUM_OBSTACLE_POINTS) =>
                    \E m \in 1..Len(obstacle_pc) :
                        SubSeq(cloud0[r], 1, 3) = SubSeq(obstacle_pc[m], 1, 3)
              /\ r > NUM_ROBOT_POINTS + NUM_OBSTACLE_POINTS =>
                    SubSeq(cloud0[r], 1, 3)
                        = TargetSample(target, NUM_TARGET_POINTS)
                              [r - NUM_ROBOT_POINTS - NUM_OBSTACLE_POINTS]

\* a cloud built by make_point_cloud_from_problem from a larger depth cloud
C7_Witness ==
    /\ fn = "rollout"
    /\ pc = "loop"
    /\ Len(obstacle_pc) > NUM_OBSTACLE_POINTS
    /\ point_cloud = cloud0

\* C8: the loop makes at most the budget's number of policy queries and
\* cannot stay in the loop once they are spent; the trajectory begins with
\* the given initial configuration and has 1 + (queries made) entries,
\* hence between 2 and budget + 1 entries when returned.
C8_BoundedRollout ==
    Started =>
        /\ mdlCalls <= Budget
        /\ mdlCalls = i
        /\ pc = "loop" => mdlCalls < Budget
        /\ trajectory[1] = q0
        /\ Len(trajectory) = 1 + mdlCalls
        /\ pc = "done" =>
              (2 <= Len(trajectory) /\ Len(trajectory) <= Budget + 1)

\* the evaluator's rollout spent its whole budget
C8_Witness ==
    /\ fn = "rollout"
    /\ pc = "done"
    /\ mdlCalls = MAX_ROLLOUT_LENGTH_EVAL
    /\ Len(trajectory) = MAX_ROLLOUT_LENGTH_EVAL + 1

----------------------------------------------------------------------------
(* Obstacle lists: where they are loaded, canonicalized and sampled.       *)
(* An obstacle is a record; kind is "Cylinder" (center, radius, height,    *)
(* quat) or "Cuboid" (center, dims, quat); quat is [w, x, y, z].           *)

\* longest obstacle list of a modelled problem
MaxObstacles == 2

Centers == { <<0, 0, 0>>, <<1, 2, 3>> }

Quats == { [w |-> 1, x |-> 0, y |-> 0, z |-> 0],
           [w |-> 0, x |-> 1, y |-> 0, z |-> 0] }

\* geometrout's Cuboid(center, dims, quaternion), quaternion given as wxyz
Cuboid(center, dims, quaternion) ==
    [kind |-> "Cuboid", center |-> center, dims |-> dims,
     quat |-> [w |-> quaternion[1], x |-> quaternion[2],
               y |-> quaternion[3], z |-> quaternion[4]]]

Cylinders ==
    { [kind |-> "Cylinder", center |-> c, radius |-> r, height |-> 4,
       quat |-> q] : c \in Centers, r \in {1, 2}, q \in Quats }

Cuboids ==
    { [kind |-> "Cuboid", center |-> <<0, 0, 0>>, dims |-> d, quat |-> q] :
        d \in { <<2, 2, 4>>, <<1, 3, 5>> }, q \in Quats }

\* the obstacle lists a problem may hold
ObstacleLists ==
    UNION { [1..n -> Cylinders \cup Cuboids] : n \in 0..MaxObstacles }

\* the body of "if isinstance(obs, Cylinder):" - the same text in
\* visualize_results and in load_primitive_problem_data
CylinderToCuboid_radius(obs) ==
    Cuboid(obs.center, <<obs.radius, obs.radius, obs.height>>,
           <<obs.quat.w, obs.quat.x, obs.quat.y, obs.quat.z>>)

CylinderToCuboid(obs) ==
    Cuboid(obs.center, <<2 * obs.radius, 2 * obs.radius, obs.height>>,
           <<obs.quat.w, obs.quat.x, obs.quat.y, obs.quat.z>>)

\* for idx, obs in enumerate(obstacles): replace each cylinder in place
ReplaceCylinders(list) ==
    [k \in 1..Len(list) |->
        IF list[k].kind = "Cylinder" THEN CylinderToCuboid(list[k])
        ELSE list[k]]

\* the record of one hand-over of an obstacle list to a point sampler
Sampling(sampler, list) == [by |-> sampler, list |-> list]

\* __main__ of run_inference_nocyl.py: the problems are unpickled and
\* --use-depth decides whether they are converted first
LoadProblems ==
    /\ stage = "start"
    /\ \E list \in ObstacleLists, use_depth \in BOOLEAN :
        /\ obstacles' = list
        /\ before' = list
        /\ stage' = IF use_depth THEN "convert" ELSE "evaluate"
    /\ opc' = "None"
    /\ UNCHANGED <<sampled, rolloutVars, extVars>>

\* convert_primitive_problems_to_depth, for one problem: the primitives are
\* loaded into the simulator and seen by the depth camera
ConvertProblem ==
    /\ stage = "convert"
    /\ sampled' = Append(sampled, Sampling("depth_camera", obstacles))
    /\ opc' = "depth"
    /\ stage' = "evaluate"
    /\ UNCHANGED <<obstacles, before, rolloutVars, extVars>>

\* calculate_metrics, for one problem
MetricsProblem ==
    /\ stage = "evaluate"
    /\ IF opc = "None"
       THEN /\ sampled' = Append(sampled,
                    Sampling("construct_mixed_point_cloud", obstacles))
            /\ stage' = "evaluated"
       ELSE /\ sampled' = sampled
            /\ stage' = IF Len(obstacles) > 0 THEN "evaluated" ELSE "raised"
    /\ UNCHANGED <<obstacles, before, opc, rolloutVars, extVars>>

\* visualize_results, for one problem
VisualizeProblem ==
    /\ stage = "evaluate"
    /\ obstacles' = ReplaceCylinders(obstacles)
    /\ sampled' =
           IF opc = "None"
           THEN Append(sampled,
                    Sampling("construct_mixed_point_cloud", obstacles'))
           ELSE sampled
    /\ stage' = "visualized"
    /\ UNCHANGED <<before, opc, rolloutVars, extVars>>

\* PlanningNode.load_primitive_problem_data
NodeLoad ==
    /\ stage = "start"
    /\ \E list \in ObstacleLists :
        /\ before' = list
        /\ obstacles' = ReplaceCylinders(list)
    /\ sampled' = Append(sampled,
           Sampling("construct_mixed_point_cloud", obstacles'))
    /\ stage' = "node_loaded"
    /\ UNCHANGED <<opc, rolloutVars, extVars>>

ObsNext ==
    LoadProblems \/ ConvertProblem \/ MetricsProblem \/ VisualizeProblem
    \/ NodeLoad

SpecObs == Init /\ [][ObsNext]_vars

----------------------------------------------------------------------------
(* Properties of the obstacle lists, checked under SpecObs.                *)

\* C9: on every path that consumes an obstacle list, the list has been
\* canonicalized before it is sampled: no Cylinder ever reaches
\* construct_mixed_point_cloud or the simulated depth camera.
C9_NoCylinderSampled ==
    \A k \in 1..Len(sampled) :
        \A m \in 1..Len(sampled[k].list) :
            sampled[k].list[m].kind # "Cylinder"

Canonicalized == stage \in {"visualized", "node_loaded"}

\* C10: canonicalization keeps the length and order of the list, replaces
\* every cylinder (radius r, height h) by a box of dimensions (2r, 2r, h)
\* with the same center and orientation, leaves every box unchanged, leaves
\* no cylinder, and applied again changes nothing.
C10_Canonicalization ==
    Canonicalized =>
        /\ Len(obstacles) = Len(before)
        /\ \A k \in 1..Len(before) :
              IF before[k].kind = "Cylinder"
              THEN obstacles[k] =
                       [kind |-> "Cuboid",
                        center |-> before[k].center,
                        dims |-> <<2 * before[k].radius,
                                   2 * before[k].radius,
                                   before[k].height>>,
                        quat |-> before[k].quat]
              ELSE obstacles[k] = before[k]
        /\ \A k \in 1..Len(obstacles) : obstacles[k].kind # "Cylinder"
        /\ ReplaceCylinders(obstacles) = obstacles

\* a list of a turned cylinder of radius 2 followed by a box was canonicalized
C10_Witness ==
    /\ stage = "visualized"
    /\ Len(before) = 2
    /\ before[1].kind = "Cylinder"
    /\ before[1].radius = 2
    /\ before[1].quat.x = 1
    /\ before[2].kind = "Cuboid"
    /\ obstacles[1].kind = "Cuboid"

----------------------------------------------------------------------------
(* Further properties of the rollouts, checked under Spec.                 *)

Last(seq) == seq[Len(seq)]

\* the xyz columns of the robot segment of a scene point cloud
RobotRows(cloud) == [r \in 1..NUM_ROBOT_POINTS |-> SubSeq(cloud[r], 1, 3)]

\* C12: in the offline evaluator a problem whose initial configuration has
\* a joint outside its limits fails fast, before any policy invocation: the
\* policy is never queried on such a problem.
C12_EvalFailsFast ==
    (/\ fn = "rollout"
     /\ \E j \in Joints :
           q0[j] < JOINT_LIMITS[j][1] \/ q0[j] > JOINT_LIMITS[j][2])
    => mdlCalls = 0

\* C18: a step queries, clamps, appends, tests and only then, the test
\* having failed, resamples the robot segment.  After a step that passed
\* the test nothing more is queried, appended or written: the trajectory
\* ends with the configuration that passed (the clamped one), there is one
\* query per appended entry, the robot segment is still the one sampled at
\* the entry before, and no step is enabled.  After a step that failed the
\* test the robot segment is the one sampled at the appended entry.
C18_StepOrder ==
    (Started /\ i >= 1) =>
        /\ Last(trajectory) = unnormalize_franka_joints(q_norm)
        /\ \A j \in Joints : -NormOne <= q_norm[j] /\ q_norm[j] <= NormOne
        /\ Len(trajectory) = 1 + mdlCalls
        /\ (pc = "done" /\ byBreak) =>
              /\ TerminationTest(Last(trajectory), target)
              /\ RobotRows(point_cloud) =
                     RobotSample(trajectory[Len(trajectory) - 1],
                                 NUM_ROBOT_POINTS)
              /\ ~ENABLED PlanStep
              /\ ~ENABLED RolloutStep
        /\ ~(pc = "done" /\ byBreak) =>
              /\ ~TerminationTest(Last(trajectory), target)
              /\ RobotRows(point_cloud) =
                     RobotSample(Last(trajectory), NUM_ROBOT_POINTS)

\* the second step passed the test: the robot segment is the one sampled
\* after the first step, which differs from the passing configuration
C18_Witness ==
    /\ pc = "done"
    /\ byBreak
    /\ Len(trajectory) = 3
    /\ trajectory[2] # trajectory[3]
    /\ trajectory[2] # trajectory[1]
    /\ RobotRows(point_cloud) = RobotSample(trajectory[2], NUM_ROBOT_POINTS)

\* C20: whenever the policy is about to be queried, the robot segment of
\* the scene point cloud holds the robot points sampled at the last
\* configuration of the trajectory and the normalized configuration is the
\* normalization of that configuration; for the first query that
\* configuration is the initial one.
C20_ObservationConsistent ==
    pc = "loop" =>
        /\ RobotRows(point_cloud) =
               RobotSample(Last(trajectory), NUM_ROBOT_POINTS)
        /\ q_norm = normalize_franka_joints(Last(trajectory))
        /\ i = 0 => Last(trajectory) = q0

\* a second query is due after a step that moved the robot
C20_Witness ==
    /\ pc = "loop"
    /\ i >= 1
    /\ Last(trajectory) # q0
    /\ point_cloud # cloud0

----------------------------------------------------------------------------
(* Planner.plan and rollout_until_success side by side: the same policy,   *)
(* target, initial scene point cloud and in-limits start, and a common     *)
(* budget.                                                                 *)

\* the policies that may be loaded: the network is a function of its
\* observation, here one that ignores it, one that reads the robot segment
\* of the point cloud and one that reads the normalized configuration
Policies ==
    [kind : {"const"}, d : Deltas]
    \cup { [kind |-> "byCloud", d |-> <<>>], [kind |-> "byNorm", d |-> <<>>] }

\* mdl(point_cloud, q_norm)
Mdl(p, cloud, qn) ==
    CASE p.kind = "const" -> p.d
      [] p.kind = "byCloud" ->
            IF cloud[1][1] >= 0
            THEN [j \in Joints |-> -1] ELSE [j \in Joints |-> 1]
      [] p.kind = "byNorm" ->
            IF qn[NumJoints] < 0
            THEN [j \in Joints |-> 1]
            ELSE [j \in Joints |-> IF j = NumJoints THEN 1 ELSE 0]

\* MotionPolicyNetwork.load_from_checkpoint
LoadModel ==
    /\ policy.kind = "none"
    /\ policy' \in Policies
    /\ UNCHANGED <<rolloutVars, obsVars, ev, cv, smp, nodeVars>>

\* rollout_until_success from its entry to the head of its loop
RolloutEntry(q, cloud) ==
    [pc |-> "loop", point_cloud |-> cloud, trajectory |-> <<q>>,
     q_norm |-> normalize_franka_joints(q), i |-> 0]

\* one iteration of the loop of rollout_until_success on the locals s
RolloutIter_noresample(s, delta, tgt, budget) ==
    LET qn == ApplyDelta(s.q_norm, delta)
        qt == unnormalize_franka_joints(qn)
        hit == TerminationTest(qt, tgt)
    IN  [pc |-> IF hit \/ ~LoopContinues(s.i + 1, budget)
                THEN "done" ELSE "loop",
         point_cloud |-> s.point_cloud,
         trajectory |-> Append(s.trajectory, qt),
         q_norm |-> qn,
         i |-> s.i + 1]

RolloutIter(s, delta, tgt, budget) ==
    LET qn == ApplyDelta(s.q_norm, delta)
        qt == unnormalize_franka_joints(qn)
        hit == TerminationTest(qt, tgt)
    IN  [pc |-> IF hit \/ ~LoopContinues(s.i + 1, budget)
                THEN "done" ELSE "loop",
         point_cloud |->
             IF hit THEN s.point_cloud
             ELSE OverwriteRobot(s.point_cloud,
                                 RobotSample(qt, NUM_ROBOT_POINTS)),
         trajectory |-> Append(s.trajectory, qt),
         q_norm |-> qn,
         i |-> s.i + 1]

\* plan called with the loaded policy on inputs that pass its assertions
EqPlanCall ==
    /\ policy.kind # "none"
    /\ PlanCall
    /\ pc' = "loop"

\* an iteration of plan's loop; the delta is the loaded policy's answer
EqPlanStep ==
    /\ PlanStep
    /\ lastDelta' = Mdl(policy, point_cloud, q_norm)

\* rollout_until_success called on plan's start, target and initial cloud
EqRolloutCall ==
    /\ fn = "plan"
    /\ pc # "raised"
    /\ ev.pc = "idle"
    /\ ev' = RolloutEntry(q0, cloud0)
    /\ UNCHANGED <<rolloutVars, obsVars, policy, cv, smp, nodeVars>>

\* an iteration of the loop of rollout_until_success, under plan's budget
EqRolloutStep ==
    /\ ev.pc = "loop"
    /\ ev' = RolloutIter(ev, Mdl(policy, ev.point_cloud, ev.q_norm),
                         target, MAX_ROLLOUT_LENGTH)
    /\ UNCHANGED <<rolloutVars, obsVars, policy, cv, smp, nodeVars>>

EqNext ==
    LoadModel \/ EqPlanCall \/ EqPlanStep \/ EqRolloutCall \/ EqRolloutStep

SpecEq == Init /\ [][EqNext]_vars

\* C11: given the same policy, sampler, kinematics, target, initial point
\* cloud, in-limits start and budget, plan and rollout_until_success go
\* through the same steps (after equally many iterations they hold the same
\* normalized configuration, point cloud and trajectory) and return the same
\* trajectory.
C11_SameRollout ==
    (fn = "plan" /\ ev.pc # "idle") =>
        /\ \A k \in 1..Min(Len(trajectory), Len(ev.trajectory)) :
              trajectory[k] = ev.trajectory[k]
        /\ i = ev.i =>
              /\ q_norm = ev.q_norm
              /\ point_cloud = ev.point_cloud
              /\ pc = ev.pc
        /\ (pc = "done" /\ ev.pc = "done") => trajectory = ev.trajectory

\* both returned after two iterations of a policy that reads the point cloud
C11_Witness ==
    /\ fn = "plan"
    /\ pc = "done"
    /\ ev.pc = "done"
    /\ policy.kind = "byCloud"
    /\ Len(ev.trajectory) = 3
    /\ ev.trajectory[3] # ev.trajectory[2]
    /\ ev.trajectory[2] # ev.trajectory[1]

----------------------------------------------------------------------------
(* convert_primitive_problems_to_depth: the camera of each environment     *)
(* type.  Environment type names are sequences of characters and Python's  *)
(* "in" on strings is the substring test.                                  *)

\* the most environment types in one problem set, and problems in one type
MaxEnvs == 2
MaxProblems == 2

\* sub in str
Substring(sub, str) ==
    \E a \in 0..(Len(str) - Len(sub)) : SubSeq(str, a + 1, a + Len(sub)) = sub

DRESSER == <<"d", "r", "e", "s", "s", "e", "r">>
CUBBY == <<"c", "u", "b", "b", "y">>
TABLETOP == <<"t", "a", "b", "l", "e", "t", "o", "p">>

\* the keys a problem set may have: the three names, a compound name
\* ("merged_cubby"), a name no branch matches ("shelf") and a proper
\* prefix of a supported name ("table")
EnvironmentTypes ==
    { TABLETOP, DRESSER, CUBBY,
      <<"m", "e", "r", "g", "e", "d", "_">> \o CUBBY,
      <<"s", "h", "e", "l", "f">>,
      <<"t", "a", "b", "l", "e">> }

\* the if / elif chain: the camera of an environment type, or the raise
CameraFor_default(environment_type) ==
    IF Substring(DRESSER, environment_type) THEN "dresser_camera"
    ELSE IF Substring(CUBBY, environment_type) THEN "cubby_camera"
    ELSE "tabletop_camera"

CameraFor(environment_type) ==
    IF Substring(DRESSER, environment_type) THEN "dresser_camera"
    ELSE IF Substring(CUBBY, environment_type) THEN "cubby_camera"
    ELSE IF Substring(TABLETOP, environment_type) THEN "tabletop_camera"
    ELSE "NotImplementedError"

\* the key sequences of a problem set: dictionary keys, pairwise different
EnvSeqs ==
    UNION { { es \in [1..n -> EnvironmentTypes] :
                \A a, b \in 1..n : a # b => es[a] # es[b] } : n \in 1..MaxEnvs }

\* the call, up to the head of the loop over the environment types
ConvertCall ==
    /\ cv.pc = "idle"
    /\ \E envs \in EnvSeqs :
         \E counts \in [1..Len(envs) -> 0..MaxProblems] :
            cv' = [pc |-> "outer", envs |-> envs, counts |-> counts,
                   e |-> 1, k |-> 1, camera |-> "none", assigned |-> {}]
    /\ UNCHANGED <<rolloutVars, obsVars, policy, ev, smp, nodeVars>>

\* the head of an iteration over the environment types: the camera is
\* chosen or NotImplementedError is raised; the return after the last type
ConvertEnv ==
    /\ cv.pc = "outer"
    /\ cv' =
         IF cv.e > Len(cv.envs) THEN [cv EXCEPT !.pc = "done"]
         ELSE IF CameraFor(cv.envs[cv.e]) = "NotImplementedError"
              THEN [cv EXCEPT !.pc = "raised"]
              ELSE [cv EXCEPT !.pc = "inner", !.k = 1,
                              !.camera = CameraFor(cv.envs[cv.e])]
    /\ UNCHANGED <<rolloutVars, obsVars, policy, ev, smp, nodeVars>>

\* one problem of the current type gets its obstacle_point_cloud; after
\* the last one the loop over the types goes on
ConvertOne ==
    /\ cv.pc = "inner"
    /\ cv' =
         IF cv.k > cv.counts[cv.e]
         THEN [cv EXCEPT !.pc = "outer", !.e = cv.e + 1]
         ELSE [cv EXCEPT !.assigned = cv.assigned \cup {<<cv.e, cv.k>>},
                         !.k = cv.k + 1]
    /\ UNCHANGED <<rolloutVars, obsVars, policy, ev, smp, nodeVars>>

ConvertNext == ConvertCall \/ ConvertEnv \/ ConvertOne

SpecConvert == Init /\ [][ConvertNext]_vars

\* an environment type none of the three branches matches
Unsupported(environment_type) ==
    /\ ~Substring(DRESSER, environment_type)
    /\ ~Substring(CUBBY, environment_type)
    /\ ~Substring(TABLETOP, environment_type)

\* C13: for an environment type that is not supported the conversion raises
\* NotImplementedError: no problem of that type is assigned an
\* obstacle_point_cloud, the loop never goes past that type and the call
\* does not return normally.
C13_UnsupportedRaises ==
    cv.pc # "idle" =>
        \A e \in 1..Len(cv.envs) :
            Unsupported(cv.envs[e]) =>
                /\ \A a \in cv.assigned : a[1] # e
                /\ cv.e <= e
                /\ cv.pc # "done"
                /\ (cv.e = e /\ cv.pc # "outer") => cv.pc = "raised"

\* the conversion raised on the second type after converting the problems
\* of the first
C13_Witness ==
    /\ cv.pc = "raised"
    /\ cv.e = 2
    /\ Unsupported(cv.envs[2])
    /\ cv.counts[2] > 0
    /\ cv.assigned # {}

----------------------------------------------------------------------------
(* Obstacle sub-sampling: PlanningNode.clean_point_cloud and               *)
(* make_point_cloud_from_problem.  Coordinates are in millimetres.         *)

\* the most points in a source cloud
MaxSource == 3

PROBLEM_SET == TRUE

\* a point on the mount table, one over the task table top, one outside both
SamplePoints == { <<0, 0, 0>>, <<500, 0, 100>>, <<2000, 0, 0>> }

\* the source clouds: points may repeat
SourceClouds == UNION { [1..n -> SamplePoints] : n \in 1..MaxSource }

task_tabletop_mask(p) ==
    /\ p[1] > 250 /\ p[1] < 1350
    /\ p[2] > -300 /\ p[2] < 1600
    /\ p[3] > -50 /\ p[3] < 350

mount_table_mask(p) ==
    /\ p[1] > -350 /\ p[1] < 300
    /\ p[2] > -500 /\ p[2] < 500
    /\ p[3] > -50 /\ p[3] < 50

workspace_mask(p) == task_tabletop_mask(p) \/ mount_table_mask(p)

\* a[workspace_mask]: the rows of a whose row of xyz is in the workspace
RECURSIVE MaskRows(_, _)
MaskRows(a, xyz) ==
    IF a = <<>> THEN <<>>
    ELSE LET rest == MaskRows(Tail(a), Tail(xyz))
         IN  IF workspace_mask(Head(xyz)) THEN <<Head(a)>> \o rest ELSE rest

\* the arrays that reach np.random.choice in clean_point_cloud
Workspace(xyz, rgba) ==
    IF ~PROBLEM_SET
    THEN [xyz |-> MaskRows(xyz, xyz),
          rgba |-> MaskRows(rgba, xyz)]
    ELSE [xyz |-> xyz, rgba |-> rgba]

\* the colours that come with a cloud: one per row, pairwise different
Colours(xyz) == [r \in 1..Len(xyz) |-> <<r, r, r, 255>>]

\* a call of clean_point_cloud: it returns xyz[random_mask] and
\* rgba[random_mask], or np.random.choice raises ValueError
CleanPointCloud ==
    /\ smp.pc = "idle"
    /\ \E xyz \in SourceClouds :
        LET w == Workspace(xyz, Colours(xyz))
        IN  \/ \E random_mask \in RandomChoice(Len(w.xyz), NUM_OBSTACLE_POINTS) :
                 smp' = [pc |-> "returned", fn |-> "clean_point_cloud",
                         source |-> w.xyz, idx |-> random_mask,
                         out |-> TakeRows(w.xyz, random_mask),
                         rgba |-> TakeRows(w.rgba, random_mask)]
            \/ /\ RandomChoice(Len(w.xyz), NUM_OBSTACLE_POINTS) = {}
               /\ smp' = [pc |-> "raised", fn |-> "clean_point_cloud",
                          source |-> w.xyz, idx |-> <<>>, out |-> <<>>,
                          rgba |-> <<>>]
    /\ UNCHANGED <<rolloutVars, obsVars, policy, ev, cv, nodeVars>>

\* the obstacle segment of a scene point cloud, without the label column
ObstacleRows(cloud) ==
    [r \in 1..NUM_OBSTACLE_POINTS |->
        SubSeq(cloud[NUM_ROBOT_POINTS + r], 1, 3)]

\* a call of make_point_cloud_from_problem on a problem's depth cloud
MakePointCloud ==
    /\ smp.pc = "idle"
    /\ \E obstacle_points \in SourceClouds, q \in InitialConfigs, tgt \in Targets :
        \/ \E random_obstacle_indices \in
                 RandomChoice(Len(obstacle_points), NUM_OBSTACLE_POINTS) :
              smp' = [pc |-> "returned", fn |-> "make_point_cloud_from_problem",
                      source |-> obstacle_points,
                      idx |-> random_obstacle_indices,
                      out |-> ObstacleRows(
                                 make_point_cloud_from_problem(
                                     q, tgt, obstacle_points,
                                     random_obstacle_indices)),
                      rgba |-> <<>>]
        \/ /\ RandomChoice(Len(obstacle_points), NUM_OBSTACLE_POINTS) = {}
           /\ smp' = [pc |-> "raised", fn |-> "make_point_cloud_from_problem",
                      source |-> obstacle_points, idx |-> <<>>, out |-> <<>>,
                      rgba |-> <<>>]
    /\ UNCHANGED <<rolloutVars, obsVars, policy, ev, cv, nodeVars>>

\* the caller takes the result (or the exception) and may call again
SampleReturn ==
    /\ smp.pc # "idle"
    /\ smp' = [pc |-> "idle"]
    /\ UNCHANGED <<rolloutVars, obsVars, policy, ev, cv, nodeVars>>

SampleNext == CleanPointCloud \/ MakePointCloud \/ SampleReturn

SpecSample == Init /\ [][SampleNext]_vars

\* C17: a sub-sampling call selects exactly NUM_OBSTACLE_POINTS points of
\* the source cloud without replacement, whatever indices the random
\* generator draws: the indices are pairwise different indices of the
\* source and output point k is source point idx[k].  (The call raises,
\* selecting nothing, exactly when the source has fewer points than that.)
C17_WithoutReplacement ==
    /\ smp.pc = "returned" =>
          /\ Len(smp.idx) = NUM_OBSTACLE_POINTS
          /\ Len(smp.out) = NUM_OBSTACLE_POINTS
          /\ \A a \in 1..Len(smp.idx) : smp.idx[a] \in 1..Len(smp.source)
          /\ \A a, b \in 1..Len(smp.idx) :
                a # b => smp.idx[a] # smp.idx[b]
          /\ \A a \in 1..Len(smp.out) : smp.out[a] = smp.source[smp.idx[a]]
    /\ smp.pc = "raised" => Len(smp.source) < NUM_OBSTACLE_POINTS
    /\ smp.pc = "returned" => Len(smp.source) >= NUM_OBSTACLE_POINTS

\* a selection from a source that is larger than the sample and in which
\* all points are equal: only the indices tell the rows apart
C17_Witness ==
    /\ smp.pc = "returned"
    /\ Len(smp.source) > NUM_OBSTACLE_POINTS
    /\ \A a \in 1..Len(smp.source) : smp.source[a] = smp.source[1]

----------------------------------------------------------------------------
(* PlanningNode: the constructor on the main thread and plan_callback on   *)
(* the receiving threads.                                                  *)

MAX_INTERPO_STEPS == 5

\* the most PlanningProblem messages delivered in one run
MaxRequests == 2

\* Planner.plan as a function of its arguments under the policy p: the
\* assertions and the construction of the scene point cloud
PlanEntry(q, tgt, obst) ==
    IF ShapeOk(obst) /\ WithinLimits(q)
    THEN [pc |-> "loop",
          point_cloud |-> StackCloud(RobotSample(q, NUM_ROBOT_POINTS), obst,
                                     TargetSample(tgt, NUM_TARGET_POINTS)),
          trajectory |-> <<q>>,
          q_norm |-> normalize_franka_joints(q),
          success |-> FALSE,
          i |-> 0]
    ELSE [pc |-> "raised", point_cloud |-> <<>>, trajectory |-> <<>>,
          q_norm |-> <<>>, success |-> FALSE, i |-> 0]

\* one iteration of plan's loop on the locals s
PlanIter(s, delta, tgt) ==
    LET qn == ApplyDelta(s.q_norm, delta)
        qt == unnormalize_franka_joints(qn)
        hit == TerminationTest(qt, tgt)
    IN  [pc |-> IF hit \/ ~LoopContinues(s.i + 1, MAX_ROLLOUT_LENGTH)
                THEN "done" ELSE "loop",
         point_cloud |->
             IF hit THEN s.point_cloud
             ELSE OverwriteRobot(s.point_cloud,
                                 RobotSample(qt, NUM_ROBOT_POINTS)),
         trajectory |-> Append(s.trajectory, qt),
         q_norm |-> qn,
         success |-> SuccessAfter(s.success, hit),
         i |-> s.i + 1]

RECURSIVE PlanRun(_, _, _)
PlanRun(p, s, tgt) ==
    IF s.pc # "loop" THEN s
    ELSE PlanRun(p, PlanIter(s, Mdl(p, s.point_cloud, s.q_norm), tgt), tgt)

\* self.planner.plan(q0, target, scene_pc)
Planner_plan(p, q, tgt, obst) == PlanRun(p, PlanEntry(q, tgt, obst), tgt)

\* interpolate(q0, q1, steps): dq = (q1 - q0) / steps and the points
\* q0 + i * dq for i in range(steps + 1).  The points are kept as their
\* numerators over the denominator steps: steps * q0 + i * (q1 - q0).
interpolate_exclusive(qa, qb, steps) ==
    [k \in 1..steps |->
        [j \in Joints |-> steps * qa[j] + (k - 1) * (qb[j] - qa[j])]]

interpolate(qa, qb, steps) ==
    [k \in 1..(steps + 1) |->
        [j \in Joints |-> steps * qa[j] + (k - 1) * (qb[j] - qa[j])]]

\* the loop over range(len(plan) - 1) that fills joint_trajectory.points
RECURSIVE JointTrajectoryPoints(_)
JointTrajectoryPoints(plan) ==
    IF Len(plan) < 2 THEN <<>>
    ELSE interpolate(plan[1], plan[2], MAX_INTERPO_STEPS)
         \o JointTrajectoryPoints(Tail(plan))

\* the planning problems a publisher may send
NodeRequests ==
    [q0 : { Uniform(0), Uniform(-NormOne),
            unnormalize_franka_joints(
                [j \in Joints |-> IF j = 1 THEN -NormOne - 1 ELSE 0]) },
     target : Targets]

\* the scene loaded from the problem file:
\* construct_mixed_point_cloud(obstacles, NUM_OBSTACLE_POINTS * 10)[:, :3],
\* scaled down to the smallest cloud that can be sub-sampled
FullScenePc ==
    FirstThreeColumns(construct_mixed_point_cloud(NUM_OBSTACLE_POINTS))

\* the policies the node may load: one that ignores its observation and the
\* two that read it
NodePolicies ==
    { p \in Policies : p.kind = "const" => p.d = [j \in Joints |-> 1] }

\* __init__ up to and including rospy.Subscriber(...): self.planner = None
RegisterSubscriber ==
    /\ node.stage = "new"
    /\ node' = [node EXCEPT !.stage = "subscribed",
                            !.planner = [kind |-> "none", d |-> <<>>],
                            !.attrs = {"planner", "planning_problem_subscriber"}]
    /\ UNCHANGED <<rolloutVars, obsVars, policy, ev, cv, smp, cb, delivered>>

\* self.full_point_cloud_publisher and self.plan_publisher
CreatePublishers ==
    /\ node.stage = "subscribed"
    /\ node' = [node EXCEPT !.stage = "publishers",
                            !.attrs = node.attrs \cup
                                {"full_point_cloud_publisher", "plan_publisher"}]
    /\ UNCHANGED <<rolloutVars, obsVars, policy, ev, cv, smp, cb, delivered>>

\* self.goal_publisher
CreateGoalPublisher ==
    /\ node.stage = "publishers"
    /\ node' = [node EXCEPT !.stage = "goal_publisher",
                            !.attrs = node.attrs \cup {"goal_publisher"}]
    /\ UNCHANGED <<rolloutVars, obsVars, policy, ev, cv, smp, cb, delivered>>

\* load_primitive_problem_data up to self.full_scene_pc = scene_pc
LoadScenePc ==
    /\ node.stage = "goal_publisher"
    /\ node' = [node EXCEPT !.stage = "scene_pc",
                            !.full_scene_pc = FullScenePc,
                            !.attrs = node.attrs \cup {"full_scene_pc"}]
    /\ UNCHANGED <<rolloutVars, obsVars, policy, ev, cv, smp, cb, delivered>>

\* self.full_scene_colors = scene_colors
LoadSceneColors ==
    /\ node.stage = "scene_pc"
    /\ node' = [node EXCEPT !.stage = "scene_colors",
                            !.attrs = node.attrs \cup {"full_scene_colors"}]
    /\ UNCHANGED <<rolloutVars, obsVars, policy, ev, cv, smp, cb, delivered>>

\* self.planner = Planner(mdl_path): the model is loaded
LoadPlanner ==
    /\ node.stage = "scene_colors"
    /\ \E p \in NodePolicies :
         node' = [node EXCEPT !.stage = "ready", !.planner = p]
    /\ UNCHANGED <<rolloutVars, obsVars, policy, ev, cv, smp, cb, delivered>>

\* a message arrives on connection c, whose thread is not in the callback,
\* and plan_callback starts (the locals q0, target, current_goal are set)
Deliver(c) ==
    /\ node.stage # "new"
    /\ cb[c].pc \in {"idle", "returned", "raised"}
    /\ delivered < MaxRequests
    /\ delivered' = delivered + 1
    /\ \E msg \in NodeRequests :
         cb' = [cb EXCEPT ![c] =
                   [IdleCallback EXCEPT !.pc = "goal", !.msg = msg,
                                        !.early = (node.stage # "ready")]]
    /\ UNCHANGED <<rolloutVars, obsVars, policy, ev, cv, smp, node>>

\* self.goal_publisher.publish(self.current_goal); AttributeError while the
\* attribute does not exist
PublishGoal(c) ==
    /\ cb[c].pc = "goal"
    /\ cb' = [cb EXCEPT ![c] =
                IF "goal_publisher" \in node.attrs
                THEN [cb[c] EXCEPT !.pc = "clean", !.goals = cb[c].goals + 1]
                ELSE [cb[c] EXCEPT !.pc = "raised"]]
    /\ UNCHANGED <<rolloutVars, obsVars, policy, ev, cv, smp, node, delivered>>

\* self.clean_point_cloud(self.full_scene_pc, self.full_scene_colors): the
\* two attributes are read, AttributeError while one does not exist.  The
\* result is local to the callback; its random draw is made in
\* PlanAndPublish, where it is used.
CleanScene(c) ==
    /\ cb[c].pc = "clean"
    /\ cb' = [cb EXCEPT ![c] =
                IF {"full_scene_pc", "full_scene_colors"} \subseteq node.attrs
                THEN [cb[c] EXCEPT !.pc = "check"]
                ELSE [cb[c] EXCEPT !.pc = "raised"]]
    /\ UNCHANGED <<rolloutVars, obsVars, policy, ev, cv, smp, node, delivered>>

\* if self.planner is None: logwarn and return; else plan is entered
CheckPlanner(c) ==
    /\ cb[c].pc = "check"
    /\ cb' = [cb EXCEPT ![c] =
                IF node.planner.kind = "none"
                THEN [cb[c] EXCEPT !.pc = "returned", !.warned = TRUE]
                ELSE [cb[c] EXCEPT !.pc = "planning", !.invoked = TRUE]]
    /\ UNCHANGED <<rolloutVars, obsVars, policy, ev, cv, smp, node, delivered>>

\* the rest of plan_callback once plan has returned res: the interpolated
\* JointTrajectory is built and published
AfterPlan_onlyOnSuccess(t, res) ==
    [t EXCEPT !.pc = "returned", !.planned = TRUE,
              !.success = res.success, !.plan = res.trajectory,
              !.points = JointTrajectoryPoints(res.trajectory),
              !.pubs = IF res.success THEN t.pubs + 1 ELSE t.pubs]

AfterPlan(t, res) ==
    [t EXCEPT !.pc = "returned", !.planned = TRUE,
              !.success = res.success, !.plan = res.trajectory,
              !.points = JointTrajectoryPoints(res.trajectory),
              !.pubs = t.pubs + 1]

\* plan runs on the cleaned scene and returns, or one of its assertions
\* fails; then the trajectory is published
PlanAndPublish(c) ==
    /\ cb[c].pc = "planning"
    /\ \E random_mask \in RandomChoice(Len(node.full_scene_pc),
                                        NUM_OBSTACLE_POINTS) :
        LET scene_pc == TakeRows(node.full_scene_pc, random_mask)
            res == Planner_plan(node.planner, cb[c].msg.q0,
                                cb[c].msg.target, scene_pc)
        IN  cb' = [cb EXCEPT ![c] =
                     IF res.pc = "raised"
                     THEN [cb[c] EXCEPT !.pc = "raised"]
                     ELSE AfterPlan(cb[c], res)]
    /\ UNCHANGED <<rolloutVars, obsVars, policy, ev, cv, smp, node, delivered>>

NodeNext ==
    \/ RegisterSubscriber
    \/ CreatePublishers
    \/ CreateGoalPublisher
    \/ LoadScenePc
    \/ LoadSceneColors
    \/ LoadPlanner
    \/ \E c \in Connections :
          \/ Deliver(c)
          \/ PublishGoal(c)
          \/ CleanScene(c)
          \/ CheckPlanner(c)
          \/ PlanAndPublish(c)

SpecNode == Init /\ [][NodeNext]_vars

\* C14: for every request on which the planner runs to completion,
\* plan_callback publishes exactly one JointTrajectory on the plan topic,
\* whether plan returned success or not; and it publishes for no other.
C14_OnePublishPerPlan ==
    \A c \in Connections :
        /\ (cb[c].pc = "returned" /\ cb[c].planned) => cb[c].pubs = 1
        /\ cb[c].pubs <= 1
        /\ cb[c].pubs = 1 => cb[c].planned

\* two requests planned to completion, one with success and one without,
\* and each published once
C14_Witness ==
    \E c, e \in Connections :
        /\ cb[c].pc = "returned" /\ cb[c].planned /\ cb[c].success
        /\ cb[c].pubs = 1
        /\ cb[e].pc = "returned" /\ cb[e].planned /\ ~cb[e].success
        /\ cb[e].pubs = 1

\* C15: the published trajectory is the linear interpolation of the plan:
\* for a plan of n configurations it has (n - 1) * (MAX_INTERPO_STEPS + 1)
\* points, segment i contributing in order
\* plan[i] + k * (plan[i+1] - plan[i]) / MAX_INTERPO_STEPS for
\* k = 0..MAX_INTERPO_STEPS; the first point is plan[1], the last is
\* plan[n] and every configuration of the plan appears, in plan order.
\* (Points are numerators over MAX_INTERPO_STEPS.)
C15_LinearInterpolation ==
    \A c \in Connections :
        cb[c].pubs = 1 =>
            LET plan == cb[c].plan
                pts == cb[c].points
                n == Len(plan)
                S == MAX_INTERPO_STEPS
                Scaled(q) == [j \in Joints |-> S * q[j]]
            IN  /\ n >= 2
                /\ Len(pts) = (n - 1) * (S + 1)
                /\ \A s \in 1..(n - 1) : \A k \in 0..S :
                      pts[(s - 1) * (S + 1) + k + 1] =
                          [j \in Joints |->
                              S * plan[s][j] + k * (plan[s + 1][j] - plan[s][j])]
                /\ pts[1] = Scaled(plan[1])
                /\ pts[Len(pts)] = Scaled(plan[n])
                /\ \A s \in 1..(n - 1) :
                      /\ pts[(s - 1) * (S + 1) + 1] = Scaled(plan[s])
                      /\ pts[s * (S + 1)] = Scaled(plan[s + 1])

\* a published plan of three different configurations whose steps are not
\* multiples of MAX_INTERPO_STEPS in every joint
C15_Witness ==
    \E c \in Connections :
        /\ cb[c].pubs = 1
        /\ Len(cb[c].plan) = 3
        /\ cb[c].plan[1] # cb[c].plan[2]
        /\ cb[c].plan[2] # cb[c].plan[3]
        /\ \E j \in Joints :
              (cb[c].plan[2][j] - cb[c].plan[1][j]) % MAX_INTERPO_STEPS # 0

\* C16: the serving layer never has two planning requests in flight: at no
\* time are two invocations of Planner.plan executing concurrently.
C16_AtMostOnePlanning ==
    \A c, e \in Connections :
        (cb[c].pc = "planning" /\ cb[e].pc = "planning") => c = e

\* C19: a request delivered after the subscriber is registered and before
\* initialization has finished is rejected cleanly: the callback does not
\* raise, logs the warning before it returns, Planner.plan is not invoked
\* and no JointTrajectory is published.
C19_EarlyRequestRejected ==
    \A c \in Connections :
        cb[c].early =>
            /\ cb[c].pc # "raised"
            /\ ~cb[c].invoked
            /\ cb[c].pubs = 0
            /\ cb[c].pc = "returned" => cb[c].warned

====
